---- MODULE Spec2Model ----
(***************************************************************************)
(* Inline forms of hikka/inline/form.py: the form store `_forms`, form    *)
(* creation (Form.form), markup generation, edit with its rate-limit      *)
(* retry, delete, unload and the inline-query handler.                    *)
(*                                                                         *)
(* Python values are modelled with their type: a value is a record whose  *)
(* field t is the Python type name.  Strings that are split, compared or  *)
(* used as dictionary keys (form identifiers, button tokens, inline       *)
(* queries) are sequences of characters.  A key that is absent from a     *)
(* button dict is the empty sequence.                                     *)
(*                                                                         *)
(* The coroutines are suspended only at their `await`s: every action is   *)
(* the code between two awaits.                                           *)
(***************************************************************************)
EXTENDS Integers, Sequences, FiniteSets, TLC

(***************************** bounds **************************************)
MaxForms == 1         \* forms of the lifecycle specification
MaxCalls == 2         \* calls of Form.form in the other specifications
MaxEdits == 2         \* calls of _callback_query_edit
MaxAttempts == 2      \* calls of edit_message_text per edit
MaxDeletes == 1       \* calls of _callback_query_delete
MaxUnloads == 1       \* calls of _callback_query_unload
MaxQueryLen == 3      \* characters of an inline query
UidLen == 2           \* characters of a form identifier, utils.rand(30)
CallbackLen == 2      \* characters of a callback token, utils.rand(30)
InputLen == 1         \* characters of an input token, utils.rand(10)

(************************ program constants ********************************)
MarkupTTL == 86400    \* self._markup_ttl
Me == 1               \* self._me
Owner == <<2>>        \* self._client.dispatcher.security._owner
NoId == 0             \* None in the fields chat and message_id
ChatId == 7           \* the chat of the target
Now == 1000           \* round(time.time()) when the form is created
Alphabet == <<"a", "b", "c", "d">>
Space == " "
\* the text of the input-capture result, lines 366-367
TransferNotice == <<"T", "r", "a", "n", "s", "f", "e", "r", "r", "i", "n", "g">>

(************************** Python values **********************************)
PyStr(s) == [t |-> "str", n |-> 0, s |-> s]
PyInt(n) == [t |-> "int", n |-> n, s |-> <<>>]
PyBool(b) == [t |-> "bool", n |-> IF b THEN 1 ELSE 0, s |-> <<>>]
PyFloat(n) == [t |-> "float", n |-> n, s |-> <<>>]
PyNone == [t |-> "NoneType", n |-> 0, s |-> <<>>]

\* isinstance(x, int): bool is a subclass of int
IsInt(x) == x.t \in {"int", "bool"}
\* truth value of a Python object
Truthy(x) ==
    CASE x.t \in {"int", "bool", "float"} -> x.n # 0
      [] x.t = "str" -> x.s # <<>>
      [] OTHER -> FALSE

(****************************** buttons ************************************)
Tags == {"url", "callback", "input", "data"}
NoTok == <<>>
Button(tags) == [t |-> "dict", tags |-> tags, cb |-> NoTok, sq |-> NoTok]
NotADict == [t |-> "int", tags |-> {}, cb |-> NoTok, sq |-> NoTok]
RowOf(btns) == [t |-> "list", btns |-> btns]
NotIterable == [t |-> "int", btns |-> <<>>]
GridList(rows) == [t |-> "list", rows |-> rows]
GridNone == [t |-> "NoneType", rows |-> <<>>]
GridStr == [t |-> "str", rows |-> <<>>]
AllowList(xs) == [t |-> "list", xs |-> xs]
AllowNone == [t |-> "NoneType", xs |-> <<>>]
AllowStr == [t |-> "str", xs |-> <<>>]
MessageArg(out) == [t |-> "Message", out |-> out]
ChatArg == [t |-> "int", out |-> FALSE]
TargetStr == [t |-> "str", out |-> FALSE]

\* the rows of a validated grid, as lists of button dicts
Rows(g) == [i \in 1..Len(g.rows) |-> g.rows[i].btns]

\* utils.array_sum: the buttons of all rows, in order
RECURSIVE array_sum(_)
array_sum(rows) ==
    IF rows = <<>> THEN <<>> ELSE Head(rows) \o array_sum(Tail(rows))

\* the check of lines 175-178 with the input buttons forgotten
HasCallbackOnly(rows) ==
    \E i \in 1..Len(rows) : \E j \in 1..Len(rows[i]) : "callback" \in rows[i][j].tags

\* lines 175-178: any("callback" in button or "input" in button ...)
HasInteractive(rows) ==
    \E i \in 1..Len(rows) : \E j \in 1..Len(rows[i]) :
        "callback" \in rows[i][j].tags \/ "input" \in rows[i][j].tags

(*************************** random strings ********************************)
\* the k-th string of length n over Alphabet, k counted from 0
RECURSIVE StrOf(_, _)
StrOf(n, k) ==
    IF n = 0 THEN <<>>
    ELSE StrOf(n - 1, k \div Len(Alphabet)) \o <<Alphabet[(k % Len(Alphabet)) + 1]>>

RECURSIVE Pow(_, _)
Pow(b, n) == IF n = 0 THEN 1 ELSE b * Pow(b, n - 1)

Fresh(n, taken) == {k \in 0..(Pow(Len(Alphabet), n) - 1) : StrOf(n, k) \notin taken}

\* utils.rand(n): a string of n characters that was not drawn before (the
\* first one in alphabetical order: the strings are interchangeable)
Rand(n, taken) ==
    StrOf(n, CHOOSE k \in Fresh(n, taken) : \A j \in Fresh(n, taken) : k <= j)

(************************* _generate_markup ********************************)
\* a token drawn for every tag that is present, the token key missing or not
AnnotateAlways(b, taken) ==
    LET cb == IF "callback" \in b.tags THEN Rand(CallbackLen, taken) ELSE b.cb
        t1 == IF cb = b.cb THEN taken ELSE taken \cup {cb}
        sq == IF "input" \in b.tags THEN Rand(InputLen, t1) ELSE b.sq
    IN  [b |-> [b EXCEPT !.cb = cb, !.sq = sq],
         taken |-> IF sq = b.sq THEN t1 ELSE t1 \cup {sq}]

\* lines 194-198 for one button: a token only where the tag is present and
\* the token key is missing
AnnotateButton(b, taken) ==
    LET cb == IF "callback" \in b.tags /\ b.cb = NoTok
              THEN Rand(CallbackLen, taken) ELSE b.cb
        t1 == IF cb = b.cb THEN taken ELSE taken \cup {cb}
        sq == IF "input" \in b.tags /\ b.sq = NoTok
              THEN Rand(InputLen, t1) ELSE b.sq
    IN  [b |-> [b EXCEPT !.cb = cb, !.sq = sq],
         taken |-> IF sq = b.sq THEN t1 ELSE t1 \cup {sq}]

RECURSIVE AnnotateRow(_, _)
AnnotateRow(row, taken) ==
    IF row = <<>> THEN [row |-> <<>>, taken |-> taken]
    ELSE LET h == AnnotateButton(Head(row), taken)
             r == AnnotateRow(Tail(row), h.taken)
         IN  [row |-> <<h.b>> \o r.row, taken |-> r.taken]

\* the annotation pass, lines 190-198
RECURSIVE Annotate(_, _)
Annotate(rows, taken) ==
    IF rows = <<>> THEN [rows |-> <<>>, taken |-> taken]
    ELSE LET h == AnnotateRow(Head(rows), taken)
             r == Annotate(Tail(rows), h.taken)
         IN  [rows |-> <<h.row>> \o r.rows, taken |-> r.taken]

DataLiteral == <<"d", "a", "t", "a">>
UrlLiteral == <<"u", "r", "l">>

\* the build pass for one button, lines 206-233
BuildButton(b) ==
    IF "url" \in b.tags THEN [kind |-> "url", data |-> UrlLiteral]
    ELSE IF "callback" \in b.tags THEN [kind |-> "callback_data", data |-> b.cb]
    ELSE IF "input" \in b.tags
         THEN [kind |-> "switch_inline_query_current_chat", data |-> b.sq \o <<Space>>]
    ELSE [kind |-> "callback_data", data |-> DataLiteral]

\* the build pass, lines 200-250, on annotated rows
Build(rows) ==
    [i \in 1..Len(rows) |-> [j \in 1..Len(rows[i]) |-> BuildButton(rows[i][j])]]

(******************************* state *************************************)
VARIABLES
    forms,      \* the keys of self._forms, in insertion order
    heap,       \* the form records ever registered, by identifier: a record
                \* outlives its key in self._forms while a coroutine holds it
    used,       \* the strings utils.rand has returned
    net,        \* the transport operations the last step requested
    ncalls,     \* the number of calls of Form.form so far
    cr,         \* the call of Form.form in progress, or the last one
    iq,         \* the last inline query and its answer
    ed,         \* the calls of _callback_query_edit
    dl,         \* the calls of _callback_query_delete
    ul,         \* the calls of _callback_query_unload: their number, the last one
    hooks       \* per form, how many times its on_unload was invoked

vars == <<forms, heap, used, net, ncalls, cr, iq, ed, dl, ul, hooks>>
others == <<ed, dl, ul>>

Live == {forms[i] : i \in 1..Len(forms)}

\* del self._forms[uid]
Remove(seq, uid) == SelectSeq(seq, LAMBDA x : x # uid)

(***************************** Form.form ***********************************)
\* lines 91-95: the first row that is not iterable raises TypeError, the
\* first button that is not a dict ends the check with False
RECURSIVE DictCheck(_)
DictCheck(rows) ==
    IF rows = <<>> THEN "ok"
    ELSE IF Head(rows).t # "list" THEN "raise"
    ELSE IF \E j \in 1..Len(Head(rows).btns) : Head(rows).btns[j].t # "dict"
         THEN "False"
    ELSE DictCheck(Tail(rows))

\* lines 97-115
TagCheck(rows) ==
    IF \A i \in 1..Len(rows) : \A j \in 1..Len(rows[i].btns) :
           rows[i].btns[j].tags # {}
    THEN "ok" ELSE "False"

\* lines 73-77: None becomes the empty list
GridDefault(g) == IF g.t = "NoneType" THEN GridList(<<>>) ELSE g
AllowDefault(a) == IF a.t = "NoneType" THEN AllowList(<<>>) ELSE a

\* a ttl out of the limits moved to the nearest limit
ClampToNearest(ttl) ==
    IF IsInt(ttl) /\ ttl.n > MarkupTTL THEN PyInt(MarkupTTL)
    ELSE IF IsInt(ttl) /\ ttl.n < 10 THEN PyInt(10)
    ELSE ttl

\* only the upper limit checked
ClampAboveOnly(ttl) ==
    IF IsInt(ttl) /\ ttl.n > MarkupTTL THEN PyInt(MarkupTTL) ELSE ttl

\* lines 129-131
ClampTtl(ttl) ==
    IF IsInt(ttl) /\ (ttl.n > MarkupTTL \/ ttl.n < 10) THEN PyInt(MarkupTTL) ELSE ttl

\* line 138: round(time.time()) + ttl or self._markup_ttl; the sum of an
\* int and None (or a str) raises TypeError
CanAdd(ttl) == ttl.t \in {"int", "bool", "float"}
Expiry(now, ttl) == IF now + ttl.n # 0 THEN now + ttl.n ELSE MarkupTTL

\* lines 73-138, the outcome of the checks before the record is registered
Validate(in) ==
    LET g == GridDefault(in.reply_markup)
        a == AllowDefault(in.always_allow)
    IN  IF in.text.t # "str" THEN "False"
        ELSE IF in.message.t \notin {"Message", "int", "bool"} THEN "False"
        ELSE IF g.t # "list" THEN "False"
        ELSE IF DictCheck(g.rows) # "ok" THEN DictCheck(g.rows)
        ELSE IF TagCheck(g.rows) # "ok" THEN "False"
        ELSE IF in.force_me.t # "bool" THEN "False"
        ELSE IF a.t # "list" THEN "False"
        ELSE IF ~IsInt(in.ttl) /\ Truthy(in.ttl) THEN "False"
        ELSE IF ~CanAdd(ClampTtl(in.ttl)) THEN "raise"
        ELSE "ok"

\* lines 135-145
NewRecord(in, now) ==
    [text |-> in.text.s,
     buttons |-> Rows(GridDefault(in.reply_markup)),
     ttl |-> Expiry(now, ClampTtl(in.ttl)),
     force_me |-> in.force_me.n = 1,
     always_allow |-> AllowDefault(in.always_allow).xs,
     chat |-> NoId,
     message_id |-> NoId,
     on_unload |-> in.on_unload]

\* the call of Form.form: its position, its arguments message, reply_markup
\* and ttl, the identifier it drew
Idle == [pc |-> "idle", uid |-> NoTok, message |-> ChatArg, rows |-> <<>>,
         ttl |-> PyBool(FALSE), failed |-> FALSE, ret |-> "none"]

\* lines 73-148: the checks, then the record is registered and the inline
\* query is requested
FormCall(in) ==
    /\ iq.pc = "idle"
    /\ cr.pc \in {"idle", "done"}
    /\ ncalls' = ncalls + 1
    /\ UNCHANGED <<iq, others>>
    /\ IF Validate(in) # "ok"
       THEN /\ cr' = [Idle EXCEPT !.pc = "done",
                        !.ret = IF Validate(in) = "False" THEN "False" ELSE "raised"]
            /\ net' = {}
            /\ UNCHANGED <<forms, heap, used, hooks>>
       ELSE LET uid == Rand(UidLen, used)
            IN  /\ used' = used \cup {uid}
                /\ hooks' = hooks @@ (uid :> 0)
                /\ forms' = Append(forms, uid)
                /\ heap' = heap @@ (uid :> NewRecord(in, Now))
                /\ net' = {"inline_query"}
                /\ cr' = [pc |-> "query", uid |-> uid, message |-> in.message,
                          rows |-> Rows(GridDefault(in.reply_markup)),
                          ttl |-> in.ttl, failed |-> FALSE, ret |-> "none"]

\* lines 155-166: the record is deleted, then the notice is requested
FormExcept ==
    IF cr.uid \in Live
    THEN /\ forms' = Remove(forms, cr.uid)
         /\ net' = {"notice"}
         /\ cr' = [cr EXCEPT !.pc = "notice", !.failed = TRUE]
    ELSE /\ cr' = [cr EXCEPT !.pc = "done", !.failed = TRUE, !.ret = "raised"]
         /\ net' = {}
         /\ UNCHANGED forms

\* line 148 returns: a list of results, an empty list (q[0] raises), or raises
FormQueryReply(outcome) ==
    /\ iq.pc = "idle"
    /\ cr.pc = "query"
    /\ UNCHANGED <<heap, used, ncalls, iq, others, hooks>>
    /\ IF outcome = "ok"
       THEN /\ net' = {"click"}
            /\ cr' = [cr EXCEPT !.pc = "click"]
            /\ UNCHANGED forms
       ELSE FormExcept

\* lines 175-184
FormFinish ==
    /\ forms' = IF HasInteractive(cr.rows) THEN forms ELSE Remove(forms, cr.uid)
    /\ cr' = [cr EXCEPT !.pc = "done", !.ret = "uid"]
    /\ net' = {}

\* lines 149-173: the click returns the message m, or raises
FormClickReply(outcome, m) ==
    /\ iq.pc = "idle"
    /\ cr.pc = "click"
    /\ UNCHANGED <<used, ncalls, iq, others, hooks>>
    /\ IF outcome = "ok"
       THEN /\ heap' = [heap EXCEPT ![cr.uid].chat = m.chat,
                                    ![cr.uid].message_id = m.id]
            /\ IF cr.message.t = "Message"
               THEN /\ net' = {"message.delete"}
                    /\ cr' = [cr EXCEPT !.pc = "msgdel"]
                    /\ UNCHANGED forms
               ELSE FormFinish
       ELSE FormExcept /\ UNCHANGED heap

\* lines 163-168: the notice was sent, or sending it raised
FormNoticeReply(outcome) ==
    /\ iq.pc = "idle"
    /\ cr.pc = "notice"
    /\ cr' = [cr EXCEPT !.pc = "done",
                        !.ret = IF outcome = "ok" THEN "False" ELSE "raised"]
    /\ net' = {}
    /\ UNCHANGED <<forms, heap, used, ncalls, iq, others, hooks>>

\* line 173: message.delete() returned, or raised
FormDeleteReply(outcome) ==
    /\ iq.pc = "idle"
    /\ cr.pc = "msgdel"
    /\ UNCHANGED <<heap, used, ncalls, iq, others, hooks>>
    /\ IF outcome = "ok"
       THEN FormFinish
       ELSE /\ cr' = [cr EXCEPT !.pc = "done", !.ret = "raised"]
            /\ net' = {}
            /\ UNCHANGED forms

(************************ _form_inline_handler *****************************)
IsSpace(c) == c = Space

\* str.split(): the maximal runs of characters that are not whitespace
RECURSIVE Split(_)
Split(q) ==
    IF q = <<>> THEN <<>>
    ELSE IF IsSpace(Head(q)) THEN Split(Tail(q))
    ELSE LET rest == Split(Tail(q))
         IN  IF Len(q) > 1 /\ ~IsSpace(q[2])
             THEN <<(<<Head(q)>> \o Head(rest))>> \o Tail(rest)
             ELSE <<(<<Head(q)>>)>> \o rest

\* the buttons the loop of lines 348-349 visits, each with its form
RECURSIVE Visited(_)
Visited(uids) ==
    IF uids = <<>> THEN <<>>
    ELSE LET bs == array_sum(heap[Head(uids)].buttons)
         IN  [j \in 1..Len(bs) |-> [uid |-> Head(uids), b |-> bs[j]]]
             \o Visited(Tail(uids))

\* lines 351-352: the conditions evaluated before the query is split
Annotated(b) == b.sq # NoTok /\ "input" \in b.tags

\* the check of lines 354-357 applied only to forms with force_me set
AllowedUnlessForced(user, uid) ==
    \/ ~heap[uid].force_me
    \/ \E i \in 1..Len(<<Me>> \o Owner \o heap[uid].always_allow) :
          (<<Me>> \o Owner \o heap[uid].always_allow)[i] = user

\* lines 354-357
Allowed(user, uid) ==
    \E i \in 1..Len(<<Me>> \o Owner \o heap[uid].always_allow) :
        (<<Me>> \o Owner \o heap[uid].always_allow)[i] = user

\* the condition of lines 350-358 with the token compared to the whole query
MatchesWhole(v, q, user) ==
    /\ Annotated(v.b)
    /\ v.b.sq = q
    /\ Allowed(user, v.uid)

\* lines 350-358 for one button, the query having a first word
Matches(v, q, user) ==
    /\ Annotated(v.b)
    /\ v.b.sq = Head(Split(q))
    /\ Allowed(user, v.uid)

NoAnswer == [kind |-> "none", n |-> 0, content |-> <<>>, markup |-> <<>>, uid |-> NoTok]

\* lines 347-395: the answer given to the inline query
Answer(q, user) ==
    LET vs == Visited(forms)
    IN  IF Split(q) = <<>> /\ \E i \in 1..Len(vs) : Annotated(vs[i].b)
        THEN [NoAnswer EXCEPT !.kind = "raised"]
        ELSE IF Split(q) # <<>> /\ \E i \in 1..Len(vs) : Matches(vs[i], q, user)
        THEN LET i == CHOOSE i \in 1..Len(vs) :
                        /\ Matches(vs[i], q, user)
                        /\ \A j \in 1..(i - 1) : ~Matches(vs[j], q, user)
             IN  [kind |-> "input", n |-> 1, content |-> TransferNotice,
                  markup |-> <<>>, uid |-> vs[i].uid]
        ELSE IF q \notin Live THEN NoAnswer
        ELSE [kind |-> "form", n |-> 1, content |-> heap[q].text,
              markup |-> Build(Annotate(heap[q].buttons, used).rows), uid |-> q]

NoQuery == [pc |-> "idle", q |-> <<>>, user |-> Me, answer |-> NoAnswer]

\* the handler runs to its only await, the answer, in one step
InlineQuery(q, user) ==
    /\ iq.pc = "idle"
    /\ iq' = [pc |-> "answer", q |-> q, user |-> user, answer |-> Answer(q, user)]
    /\ IF Answer(q, user).kind = "form"
       THEN /\ heap' = [heap EXCEPT ![q].buttons = Annotate(heap[q].buttons, used).rows]
            /\ used' = Annotate(heap[q].buttons, used).taken
       ELSE UNCHANGED <<heap, used>>
    /\ net' = IF Answer(q, user).kind \in {"input", "form"}
              THEN {"inline_query.answer"} ELSE {}
    /\ UNCHANGED <<forms, ncalls, cr, others, hooks>>

\* the handler returns.  The await of the answer is its last statement:
\* nothing another coroutine does while it is suspended there can change
\* what it did, so the handler returns before the next step of any other
InlineReturn ==
    /\ iq.pc = "answer"
    /\ iq' = NoQuery
    /\ net' = {}
    /\ UNCHANGED <<forms, heap, used, ncalls, cr, others, hooks>>

(************************* _callback_query_edit ****************************)
\* a form whose message exists and whose creation is over: its buttons can
\* be pressed and the caller of Form.form may hold its identifier
Created(uid) ==
    /\ uid \in DOMAIN heap
    /\ heap[uid].chat # NoId
    /\ ~(cr.uid = uid /\ cr.pc # "done")

QueryRef == <<"q">>    \* query.inline_message_id

\* calls and sent log the calls of the body and the requests it sent, limits
\* counts the RetryAfter answers the call has got
NoEdit == [pc |-> "idle", uid |-> NoTok, args |-> <<>>, calls |-> <<>>,
           sent |-> <<>>, limits |-> 0, ret |-> "none", ack |-> "none"]

\* the merge done by building the record anew, its identity lost
MergeRebuild(rec, a) ==
    [rec EXCEPT
        !.buttons = IF a.reply_markup.t = "list" THEN Rows(a.reply_markup) ELSE @,
        !.force_me = IF a.force_me.t = "bool" THEN a.force_me.n = 1 ELSE @,
        !.always_allow = IF a.always_allow.t = "list" THEN a.always_allow.xs ELSE @,
        !.chat = NoId,
        !.message_id = NoId]

\* the merge with the text stored in the record too
MergeText(rec, a) ==
    [rec EXCEPT
        !.text = IF a.text.t = "str" THEN a.text.s ELSE @,
        !.buttons = IF a.reply_markup.t = "list" THEN Rows(a.reply_markup) ELSE @,
        !.force_me = IF a.force_me.t = "bool" THEN a.force_me.n = 1 ELSE @,
        !.always_allow = IF a.always_allow.t = "list" THEN a.always_allow.xs ELSE @]

\* the merge without the type check of force_me
MergeUnchecked(rec, a) ==
    [rec EXCEPT
        !.buttons = IF a.reply_markup.t = "list" THEN Rows(a.reply_markup) ELSE @,
        !.force_me = a.force_me.n = 1,
        !.always_allow = IF a.always_allow.t = "list" THEN a.always_allow.xs ELSE @]

\* lines 272-277, on the record the call holds
Merge(rec, a) ==
    [rec EXCEPT
        !.buttons = IF a.reply_markup.t = "list" THEN Rows(a.reply_markup) ELSE @,
        !.force_me = IF a.force_me.t = "bool" THEN a.force_me.n = 1 ELSE @,
        !.always_allow = IF a.always_allow.t = "list" THEN a.always_allow.xs ELSE @]

\* lines 265-285 with the arguments a, for the call e on the form uid: the
\* body up to its await of edit_message_text, or to its return
EditBody(e, uid, a0, calls, sent) ==
    LET a == [a0 EXCEPT !.reply_markup = GridDefault(a0.reply_markup)]
        log == Append(calls, a)
        merged == Merge(heap[uid], a)
        an == Annotate(merged.buttons, used)
        \* the list passed as reply_markup is the one the record now holds
        held == [a EXCEPT !.reply_markup =
                    IF @.t = "list"
                    THEN GridList([i \in 1..Len(an.rows) |-> RowOf(an.rows[i])])
                    ELSE @]
        run == [pc |-> "await", uid |-> uid, args |-> a, calls |-> log,
                sent |-> sent, limits |-> ed[e].limits, ret |-> "none",
                ack |-> "none"]
    IN  IF a.text.t # "str"
        THEN /\ ed' = [ed EXCEPT ![e] = [run EXCEPT !.pc = "done", !.ret = "False"]]
             /\ net' = {}
             /\ UNCHANGED <<heap, used>>
        ELSE IF a.inline_message_id = NoTok /\ a.query = "None"
        THEN \* None has no attribute inline_message_id
             /\ heap' = [heap EXCEPT ![uid] = merged]
             /\ ed' = [ed EXCEPT ![e] = [run EXCEPT !.pc = "done", !.ret = "raised"]]
             /\ net' = {}
             /\ UNCHANGED used
        ELSE IF uid \notin Live
        THEN \* self._forms[form_uid] raises KeyError in _generate_markup
             /\ heap' = [heap EXCEPT ![uid] = merged]
             /\ ed' = [ed EXCEPT ![e] = [run EXCEPT !.pc = "done", !.ret = "raised"]]
             /\ net' = {}
             /\ UNCHANGED used
        ELSE /\ heap' = [heap EXCEPT ![uid] = [merged EXCEPT !.buttons = an.rows]]
             /\ used' = an.taken
             /\ net' = {"edit_message_text"}
             /\ ed' = [ed EXCEPT ![e] = [run EXCEPT
                    !.args = held,
                    !.sent = Append(sent,
                        [text |-> a.text.s,
                         inline_message_id |->
                            IF a.inline_message_id # NoTok
                            THEN a.inline_message_id ELSE QueryRef,
                         disable_web_page_preview |-> a.disable_web_page_preview,
                         reply_markup |-> Build(an.rows)])]]

\* a call of _callback_query_edit bound to the live form uid
EditCall(e, uid, a) ==
    /\ iq.pc = "idle"
    /\ ed[e].pc = "idle"
    /\ \A k \in 1..(e - 1) : ed[k].pc # "idle"
    /\ uid \in Live
    /\ Created(uid)
    /\ EditBody(e, uid, a, <<>>, <<>>)
    /\ UNCHANGED <<forms, ncalls, cr, iq, dl, ul, hooks>>

\* lines 286-315: query.answer after MessageNotModified or MessageIdInvalid;
\* InvalidQueryID is swallowed, None has no attribute answer
EditAck(e, kind) ==
    IF ed[e].args.query = "None"
    THEN /\ ed' = [ed EXCEPT ![e].pc = "done", ![e].ret = "raised"]
         /\ net' = {}
    ELSE /\ ed' = [ed EXCEPT ![e].pc = "done", ![e].ret = "None", ![e].ack = kind]
         /\ net' = {"query.answer"}

\* lines 279-315: what edit_message_text answers
EditReply(e, outcome) ==
    /\ iq.pc = "idle"
    /\ ed[e].pc = "await"
    /\ UNCHANGED <<forms, heap, used, ncalls, cr, iq, dl, ul, hooks>>
    /\ CASE outcome = "ok" ->
              /\ ed' = [ed EXCEPT ![e].pc = "done", ![e].ret = "None"]
              /\ net' = {}
         [] outcome = "MessageNotModified" -> EditAck(e, "silent")
         [] outcome = "MessageIdInvalid" -> EditAck(e, "notice")
         [] outcome = "RetryAfter" ->
              /\ Len(ed[e].sent) < MaxAttempts
              /\ ed' = [ed EXCEPT ![e].pc = "sleep", ![e].limits = @ + 1]
              /\ net' = {}

\* lines 296-306: after the sleep the call is made again; the last
\* parameter, disable_web_page_preview, is not passed and takes its default
Retried(a) == [a EXCEPT !.disable_web_page_preview = TRUE]

EditRetry(e) ==
    /\ iq.pc = "idle"
    /\ ed[e].pc = "sleep"
    /\ EditBody(e, ed[e].uid, Retried(ed[e].args), ed[e].calls, ed[e].sent)
    /\ UNCHANGED <<forms, ncalls, cr, iq, dl, ul, hooks>>

(******************* _callback_query_delete and _unload ********************)
\* live records whether the key was in self._forms when the call was made
NoDelete == [pc |-> "idle", uid |-> NoTok, live |-> FALSE, ret |-> "none"]

\* line 324: delete_messages is requested with the record the call holds
DeleteCall(d, uid) ==
    /\ iq.pc = "idle"
    /\ dl[d].pc = "idle"
    /\ \A k \in 1..(d - 1) : dl[k].pc # "idle"
    /\ Created(uid)
    /\ dl' = [dl EXCEPT ![d] = [pc |-> "await", uid |-> uid,
                                live |-> uid \in Live, ret |-> "none"]]
    /\ net' = {"delete_messages"}
    /\ UNCHANGED <<forms, heap, used, ncalls, cr, iq, ed, ul, hooks>>

\* the removal done although the hook raised
UnloadingLenient(uid, hook) ==
    [ret |-> IF uid \notin Live THEN "False" ELSE "True",
     invoked |-> uid \in Live /\ heap[uid].on_unload]

\* the hook taken from the record the call holds, not from the store
UnloadingHeld(uid, hook) ==
    [ret |-> IF uid \notin Live THEN "False"
             ELSE IF heap[uid].on_unload /\ hook = "raise" THEN "False"
             ELSE "True",
     invoked |-> heap[uid].on_unload]

\* lines 326-329 and 338-341: the hook, then the key is deleted; "False" when
\* the key is missing or the hook raises
Unloading(uid, hook) ==
    [ret |-> IF uid \notin Live THEN "False"
             ELSE IF heap[uid].on_unload /\ hook = "raise" THEN "False"
             ELSE "True",
     invoked |-> uid \in Live /\ heap[uid].on_unload]

\* the body of delete with the hook and the removal not guarded by the
\* transport deletion
DeleteReplyUnguarded(d, outcome, hook) ==
    /\ iq.pc = "idle"
    /\ dl[d].pc = "await"
    /\ net' = {}
    /\ UNCHANGED <<heap, used, ncalls, cr, iq, ed, ul>>
    /\ LET u == Unloading(dl[d].uid, hook)
       IN  /\ dl' = [dl EXCEPT ![d].pc = "done",
                        ![d].ret = IF outcome = "raise" THEN "False" ELSE u.ret]
           /\ hooks' = IF u.invoked
                       THEN [hooks EXCEPT ![dl[d].uid] = @ + 1] ELSE hooks
           /\ forms' = IF u.ret = "True" THEN Remove(forms, dl[d].uid) ELSE forms

\* lines 324-333: delete_messages returned or raised
DeleteReply(d, outcome, hook) ==
    /\ iq.pc = "idle"
    /\ dl[d].pc = "await"
    /\ net' = {}
    /\ UNCHANGED <<heap, used, ncalls, cr, iq, ed, ul>>
    /\ IF outcome = "raise"
       THEN /\ dl' = [dl EXCEPT ![d].pc = "done", ![d].ret = "False"]
            /\ UNCHANGED <<forms, hooks>>
       ELSE LET u == Unloading(dl[d].uid, hook)
            IN  /\ dl' = [dl EXCEPT ![d].pc = "done", ![d].ret = u.ret]
                /\ hooks' = IF u.invoked
                            THEN [hooks EXCEPT ![dl[d].uid] = @ + 1] ELSE hooks
                /\ forms' = IF u.ret = "True" THEN Remove(forms, dl[d].uid) ELSE forms

\* lines 335-345
Unload(uid, hook) ==
    /\ iq.pc = "idle"
    /\ ul.n < MaxUnloads
    /\ uid \in DOMAIN heap
    /\ ~(cr.uid = uid /\ cr.pc # "done")
    /\ LET u == Unloading(uid, hook)
       IN  /\ ul' = [n |-> ul.n + 1, uid |-> uid, ret |-> u.ret]
           /\ hooks' = IF u.invoked THEN [hooks EXCEPT ![uid] = @ + 1] ELSE hooks
           /\ forms' = IF u.ret = "True" THEN Remove(forms, uid) ELSE forms
    /\ net' = {}
    /\ UNCHANGED <<heap, used, ncalls, cr, iq, ed, dl>>

(****************************** inputs *************************************)
CallbackRow == RowOf(<<Button({"callback"})>>)
InputRow == RowOf(<<Button({"input"})>>)
UrlRow == RowOf(<<Button({"url"})>>)
DataRow == RowOf(<<Button({"data"})>>)

ValidGrids ==
    {GridNone, GridList(<<>>), GridList(<<UrlRow>>), GridList(<<DataRow>>),
     GridList(<<CallbackRow>>), GridList(<<InputRow>>),
     GridList(<<RowOf(<<Button({"url", "callback"})>>)>>),
     GridList(<<CallbackRow, RowOf(<<Button({"url"}), Button({"input"})>>)>>)}

InvalidGrids ==
    {GridStr, GridList(<<NotIterable>>), GridList(<<RowOf(<<NotADict>>)>>),
     GridList(<<RowOf(<<Button({})>>)>>),
     GridList(<<RowOf(<<NotADict>>), NotIterable>>),
     GridList(<<RowOf(<<Button({"url"}), Button({})>>)>>)}

Hi == <<"h", "i">>

BaseInput ==
    [text |-> PyStr(Hi), message |-> ChatArg, reply_markup |-> GridList(<<InputRow>>),
     force_me |-> PyBool(TRUE), always_allow |-> AllowList(<<>>),
     ttl |-> PyBool(FALSE), on_unload |-> FALSE]

TtlInputs ==
    {PyBool(FALSE), PyBool(TRUE), PyInt(5), PyInt(9), PyInt(10), PyInt(3600),
     PyInt(MarkupTTL), PyInt(MarkupTTL + 1), PyInt(999999), PyInt(-1), PyNone,
     PyStr(<<>>), PyStr(Hi), PyFloat(0), PyFloat(2)}

\* the calls of Form.form: every valid grid with every kind of target, and
\* each other argument varied alone over valid and invalid values
FormInputs ==
    {[BaseInput EXCEPT !.reply_markup = g, !.message = m] :
        g \in ValidGrids, m \in {ChatArg, MessageArg(TRUE)}}
    \cup {[BaseInput EXCEPT !.on_unload = TRUE]}
    \cup {[BaseInput EXCEPT !.reply_markup = g] : g \in InvalidGrids}
    \cup {[BaseInput EXCEPT !.text = x] : x \in {PyInt(3), PyNone}}
    \cup {[BaseInput EXCEPT !.message = x] : x \in {MessageArg(FALSE), TargetStr}}
    \cup {[BaseInput EXCEPT !.force_me = x] : x \in {PyBool(FALSE), PyNone, PyInt(1)}}
    \cup {[BaseInput EXCEPT !.always_allow = x] :
            x \in {AllowNone, AllowStr, AllowList(<<3>>)}}
    \cup {[BaseInput EXCEPT !.ttl = x] : x \in TtlInputs}

New == <<"n", "e", "w">>
MsgRef == <<"m">>

BaseEdit ==
    [text |-> PyStr(New), reply_markup |-> GridNone, force_me |-> PyNone,
     always_allow |-> AllowNone, query |-> "query", inline_message_id |-> NoTok,
     disable_web_page_preview |-> TRUE]

\* the calls of _callback_query_edit: each argument varied alone
EditInputs ==
    {BaseEdit, [BaseEdit EXCEPT !.text = PyInt(3)],
     [BaseEdit EXCEPT !.disable_web_page_preview = FALSE]}
    \cup {[BaseEdit EXCEPT !.reply_markup = g] :
            g \in {GridStr, GridList(<<CallbackRow>>), GridList(<<InputRow>>)}}
    \cup {[BaseEdit EXCEPT !.force_me = x] : x \in {PyBool(FALSE), PyInt(0)}}
    \cup {[BaseEdit EXCEPT !.always_allow = x] : x \in {AllowList(<<3>>), AllowStr}}
    \cup {[BaseEdit EXCEPT !.query = "None", !.inline_message_id = m] :
            m \in {NoTok, MsgRef}}
    \cup {[BaseEdit EXCEPT !.inline_message_id = MsgRef]}

\* the forms and the edits of the lifecycle specification
LifeInputs ==
    {BaseInput, [BaseInput EXCEPT !.on_unload = TRUE],
     [BaseInput EXCEPT !.on_unload = TRUE, !.message = MessageArg(TRUE),
                       !.reply_markup = GridList(<<CallbackRow>>)]}

LifeEdits ==
    {BaseEdit,
     [BaseEdit EXCEPT !.reply_markup = GridList(<<CallbackRow>>),
                      !.force_me = PyBool(FALSE), !.always_allow = AllowList(<<3>>),
                      !.disable_web_page_preview = FALSE]}

\* the forms of the inline-query specification
InlineInputs ==
    {[BaseInput EXCEPT !.force_me = PyBool(FALSE)],
     [BaseInput EXCEPT !.always_allow = AllowList(<<3>>),
        !.reply_markup =
            GridList(<<CallbackRow, RowOf(<<Button({"url"}), Button({"input"})>>)>>)]}

InlineEdits ==
    {[BaseEdit EXCEPT !.always_allow = AllowList(<<3>>), !.reply_markup = GridStr],
     [BaseEdit EXCEPT !.reply_markup = GridList(<<InputRow, InputRow>>)]}

EditIds == 1..MaxEdits
DeleteIds == 1..MaxDeletes
EditOutcomes == {"ok", "MessageNotModified", "MessageIdInvalid", "RetryAfter"}

Users == {Me, Owner[1], 3}
QueryChars == {Space, "a"}
Queries == UNION {[1..n -> QueryChars] : n \in 0..MaxQueryLen}
Outcomes == {"ok", "raise"}
Clicked == [chat : {ChatId}, id : {40 + ncalls}]

(*************************** specification *********************************)
Init ==
    /\ forms = <<>>
    /\ heap = <<>>
    /\ used = {}
    /\ net = {}
    /\ ncalls = 0
    /\ cr = Idle
    /\ iq = NoQuery
    /\ ed = [e \in EditIds |-> NoEdit]
    /\ dl = [d \in DeleteIds |-> NoDelete]
    /\ ul = [n |-> 0, uid |-> NoTok, ret |-> "none"]
    /\ hooks = <<>>

\* the steps of Form.form after the call
FormSteps ==
    \/ \E o \in Outcomes \cup {"empty"} : FormQueryReply(o)
    \/ \E o \in Outcomes, m \in Clicked : FormClickReply(o, m)
    \/ \E o \in Outcomes : FormNoticeReply(o)
    \/ \E o \in Outcomes : FormDeleteReply(o)

\* the inline query the materialization of a form sends to the bot
Render == \E q \in Live : InlineQuery(q, Me)

\* the lifecycle of one form: creation, edits, deletes and unloads interleaved
Next ==
    \/ InlineReturn
    \/ \E in \in LifeInputs : ncalls < MaxForms /\ FormCall(in)
    \/ FormSteps
    \/ Render
    \/ \E e \in EditIds, uid \in Live, a \in LifeEdits : EditCall(e, uid, a)
    \/ \E e \in EditIds, o \in EditOutcomes : EditReply(e, o)
    \/ \E e \in EditIds : EditRetry(e)
    \/ \E d \in DeleteIds, uid \in DOMAIN heap : DeleteCall(d, uid)
    \/ \E d \in DeleteIds, o \in Outcomes, h \in Outcomes : DeleteReply(d, o, h)
    \/ \E uid \in DOMAIN heap, h \in Outcomes : Unload(uid, h)

Spec == Init /\ [][Next]_vars

\* creation and teardown without edits: deletes and unloads interleaved
NextTeardown ==
    \/ InlineReturn
    \/ \E in \in LifeInputs : ncalls < MaxForms /\ FormCall(in)
    \/ FormSteps
    \/ Render
    \/ \E d \in DeleteIds, uid \in DOMAIN heap : DeleteCall(d, uid)
    \/ \E d \in DeleteIds, o \in Outcomes, h \in Outcomes : DeleteReply(d, o, h)
    \/ \E uid \in DOMAIN heap, h \in Outcomes : Unload(uid, h)

SpecTeardown == Init /\ [][NextTeardown]_vars

\* creation alone, over all its inputs
NextForm ==
    \/ InlineReturn
    \/ \E in \in FormInputs : ncalls < MaxForms /\ FormCall(in)
    \/ FormSteps
    \/ Render

SpecForm == Init /\ [][NextForm]_vars

\* inline queries from every user against forms that are created, edited
\* and unloaded
NextInline ==
    \/ InlineReturn
    \/ \E in \in InlineInputs : ncalls < MaxCalls /\ FormCall(in)
    \/ \E o \in Outcomes, m \in Clicked : FormClickReply(o, m)
    \/ FormQueryReply("ok")
    \/ \E q \in Queries, u \in Users : InlineQuery(q, u)
    \/ \E uid \in Live, a \in InlineEdits : EditCall(1, uid, a)
    \/ EditReply(1, "ok")
    \/ \E uid \in DOMAIN heap : Unload(uid, "ok")

SpecInline == Init /\ [][NextInline]_vars

\* one edit of one form, over all its inputs and all answers of the transport
NextEdit ==
    \/ InlineReturn
    \/ ncalls < MaxForms /\ FormCall(BaseInput)
    \/ FormQueryReply("ok")
    \/ \E m \in Clicked : FormClickReply("ok", m)
    \/ Render
    \/ \E uid \in Live, a \in EditInputs : EditCall(1, uid, a)
    \/ \E o \in EditOutcomes : EditReply(1, o)
    \/ EditRetry(1)

SpecEdit == Init /\ [][NextEdit]_vars

(******************************** claims ***********************************)
\* a grid with at least one callback or input button
InteractiveGrid(rows) ==
    \E i \in 1..Len(rows) : \E j \in 1..Len(rows[i]) :
        rows[i][j].tags \cap {"callback", "input"} # {}

\* C1: when the transport fails during materialization, the record is out of
\* the store before the notice is attempted, Form.form returns False, and the
\* identifier is not in the store once the call has ended.
C1_FailedCreateReturnsFailure ==
    /\ cr.pc = "notice" => cr.uid \notin Live
    /\ (cr.pc = "done" /\ cr.failed) => (cr.ret = "False" /\ cr.uid \notin Live)

\* C2: after Form.form returned the identifier, a form without callback and
\* input buttons is not in the store, and a form with one is in the store
\* with chat and message_id set.
C2_StoreAfterCreate ==
    (cr.pc = "done" /\ cr.ret = "uid") =>
        IF InteractiveGrid(heap[cr.uid].buttons)
        THEN /\ cr.uid \in Live
             /\ heap[cr.uid].chat # NoId
             /\ heap[cr.uid].message_id # NoId
        ELSE cr.uid \notin Live

C2_Witness ==
    /\ cr.pc = "done"
    /\ cr.ret = "uid"
    /\ heap[cr.uid].buttons # <<>>
    /\ ~InteractiveGrid(heap[cr.uid].buttons)
    /\ cr.uid \notin Live

\* the structural constraints on the arguments of Form.form
StructurallyInvalid(in) ==
    \/ in.text.t # "str"
    \/ in.message.t \notin {"Message", "int"}
    \/ in.reply_markup.t \notin {"list", "NoneType"}
    \/ \E i \in 1..Len(in.reply_markup.rows) :
          \/ in.reply_markup.rows[i].t # "list"
          \/ \E j \in 1..Len(in.reply_markup.rows[i].btns) :
                \/ in.reply_markup.rows[i].btns[j].t # "dict"
                \/ in.reply_markup.rows[i].btns[j].tags = {}
    \/ in.force_me.t # "bool"
    \/ in.always_allow.t \notin {"list", "NoneType"}
    \/ ~(in.ttl.t = "int" \/ in.ttl = PyBool(FALSE))

\* C3: on a structurally invalid input Form.form returns False without
\* raising, the store is unchanged and no transport operation is requested.
C3_InvalidInputReturnsFalse ==
    [][\A in \in FormInputs :
          (StructurallyInvalid(in) /\ FormCall(in)) =>
              /\ cr'.ret = "False"
              /\ forms' = forms
              /\ heap' = heap
              /\ net' = {}]_vars

\* C4: the unload hook of a form is invoked at most once, over every
\* sequence and interleaving of delete and unload calls.
C4_HookAtMostOnce == \A uid \in DOMAIN hooks : hooks[uid] <= 1

\* C5: an edit whose form was removed from the store while the edit was in
\* progress ends without raising, and no step of an edit puts a removed form
\* back into the store.
C5_EditToleratesRemoval ==
    /\ [](\A e \in EditIds :
            (ed[e].pc = "done" /\ ed[e].uid \notin Live) => ed[e].ret # "raised")
    /\ [][\A uid \in DOMAIN heap : uid \notin Live => uid \notin Live']_vars

\* C6: chat and message_id are None from registration until the click has
\* returned the message, both are set from then on, and no step changes them
\* once they are set while the record is in the store.
C6_WriteOnce ==
    /\ [](\A uid \in DOMAIN heap :
            /\ heap[uid].chat = NoId <=> heap[uid].message_id = NoId
            /\ (cr.uid = uid /\ cr.pc \in {"query", "click", "notice"})
                    => heap[uid].chat = NoId
            /\ (cr.uid = uid /\ (cr.pc = "msgdel" \/ cr.ret = "uid"))
                    => heap[uid].chat # NoId)
    /\ [][\A uid \in Live :
            heap[uid].chat # NoId =>
                /\ heap'[uid].chat = heap[uid].chat
                /\ heap'[uid].message_id = heap[uid].message_id]_vars

C6_Witness ==
    \E e \in EditIds :
        /\ ed[e].pc = "done"
        /\ ed[e].ret = "None"
        /\ Len(ed[e].sent) = 2
        /\ ed[e].uid \in Live
        /\ heap[ed[e].uid].chat # NoId
        /\ heap[ed[e].uid].force_me = FALSE

\* C7: an edit makes one further attempt for each rate limit it has got, so
\* one rate limit followed by success is two requests, and every request it
\* sends after a rate limit has the arguments of its first request: text,
\* message reference and disable_web_page_preview.
C7_RetryHasSameArguments ==
    \A e \in EditIds :
        /\ Len(ed[e].sent) <= ed[e].limits + 1
        /\ (ed[e].pc = "done" /\ ed[e].ret = "None" /\ ed[e].ack = "none")
                => Len(ed[e].sent) = ed[e].limits + 1
        /\ \A i \in 1..Len(ed[e].sent) :
              /\ ed[e].sent[i].text = ed[e].sent[1].text
              /\ ed[e].sent[i].inline_message_id = ed[e].sent[1].inline_message_id
              /\ ed[e].sent[i].disable_web_page_preview
                      = ed[e].sent[1].disable_web_page_preview

\* the kinds of the buttons of a grid, without their tokens
Shape(rows) == [i \in 1..Len(rows) |-> [j \in 1..Len(rows[i]) |-> rows[i][j].tags]]

\* C8 as stated: an optional argument of edit that is omitted or of the wrong
\* type leaves its field of the record, the grid included, unchanged.
C8_OmittedFieldsUnchanged ==
    [][\A uid \in Live : \A a \in EditInputs :
          EditCall(1, uid, a) =>
              /\ a.reply_markup.t # "list"
                    => Shape(heap'[uid].buttons) = Shape(heap[uid].buttons)
              /\ a.force_me.t # "bool" => heap'[uid].force_me = heap[uid].force_me
              /\ a.always_allow.t # "list"
                    => heap'[uid].always_allow = heap[uid].always_allow]_vars

\* C8 amended: force_me and always_allow are merged when supplied with the
\* right type and left unchanged otherwise; a grid that is neither a list nor
\* None leaves the grid unchanged, a list replaces it, and an omitted grid
\* (None) replaces it by the empty grid, in every edit whose text is a string.
C8_MergeOfOptionalFields ==
    [][\A uid \in Live : \A a \in EditInputs :
          EditCall(1, uid, a) =>
              /\ a.reply_markup.t \notin {"list", "NoneType"}
                    => Shape(heap'[uid].buttons) = Shape(heap[uid].buttons)
              /\ a.force_me.t # "bool" => heap'[uid].force_me = heap[uid].force_me
              /\ a.always_allow.t # "list"
                    => heap'[uid].always_allow = heap[uid].always_allow
              /\ a.text.t = "str" =>
                    /\ a.reply_markup.t = "NoneType" => heap'[uid].buttons = <<>>
                    /\ a.reply_markup.t = "list"
                          => Shape(heap'[uid].buttons) = Shape(Rows(a.reply_markup))
                    /\ a.force_me.t = "bool"
                          => heap'[uid].force_me = (a.force_me.n = 1)
                    /\ a.always_allow.t = "list"
                          => heap'[uid].always_allow = a.always_allow.xs]_vars

C8_Witness ==
    /\ ed[1].pc = "await"
    /\ ed[1].calls[1].reply_markup.t = "str"
    /\ ed[1].calls[1].force_me.t = "NoneType"
    /\ heap[ed[1].uid].buttons # <<>>

\* the live forms that hold an input button whose token is the word w
Owners(w) ==
    {uid \in Live :
        \E i \in 1..Len(heap[uid].buttons) : \E j \in 1..Len(heap[uid].buttons[i]) :
            /\ "input" \in heap[uid].buttons[i][j].tags
            /\ heap[uid].buttons[i][j].sq # NoTok
            /\ heap[uid].buttons[i][j].sq = w}

\* the owner scope, or listed in always_allow of the form
Authorized(user, uid) ==
    \/ user = Me
    \/ \E i \in 1..Len(Owner) : Owner[i] = user
    \/ \E i \in 1..Len(heap[uid].always_allow) : heap[uid].always_allow[i] = user

\* the first word of a query, the empty word when it has none
FirstWord(q) == IF Split(q) = <<>> THEN <<>> ELSE Head(Split(q))

\* C9: an inline query gets the input-capture result only if its first word
\* is the token of an input button of a live form and the requester is Me,
\* an owner, or listed in always_allow of that form.
C9_InputOnlyForAuthorized ==
    (iq.pc = "answer" /\ iq.answer.kind = "input") =>
        \E uid \in Owners(FirstWord(iq.q)) : Authorized(iq.user, uid)

C9_Witness ==
    /\ iq.pc = "answer"
    /\ Owners(FirstWord(iq.q)) # {}
    /\ \A uid \in Owners(FirstWord(iq.q)) :
            ~Authorized(iq.user, uid) /\ ~heap[uid].force_me
    /\ \E uid \in Live : Authorized(iq.user, uid)
    /\ iq.answer.kind # "input"

\* the text of a query after its first word
RECURSIVE Strip(_)
Strip(q) == IF q # <<>> /\ Head(q) = Space THEN Strip(Tail(q)) ELSE q
RECURSIVE DropWord(_)
DropWord(q) == IF q # <<>> /\ Head(q) # Space THEN DropWord(Tail(q)) ELSE q
Value(q) == Strip(DropWord(Strip(q)))

\* C10 as stated: the answer to `<token> <value>` from an authorized
\* requester is one result whose message content is the value.
C10_ContentIsValue ==
    (/\ iq.pc = "answer"
     /\ Value(iq.q) # <<>>
     /\ \E uid \in Owners(FirstWord(iq.q)) : Authorized(iq.user, uid))
        => /\ iq.answer.kind = "input"
           /\ iq.answer.n = 1
           /\ iq.answer.content = Value(iq.q)

\* C10 amended: the answer to `<token> <value>` from an authorized requester
\* is exactly one result, whose message content is the fixed transfer notice
\* of lines 366-367, whatever the value is.
C10_ContentIsNotice ==
    (iq.pc = "answer" /\ \E uid \in Owners(FirstWord(iq.q)) : Authorized(iq.user, uid))
        => /\ iq.answer.kind = "input"
           /\ iq.answer.n = 1
           /\ iq.answer.content = TransferNotice

C10_Witness ==
    /\ iq.pc = "answer"
    /\ iq.answer.kind = "input"
    /\ Value(iq.q) # <<>>
    /\ iq.user # Me

\* C11: an inline query that matches no authorized input token and is not
\* the identifier of a live form, the empty and the blank query included, is
\* answered with nothing and the handler returns without raising; no query
\* is answered more than once.
C11_NothingWithoutMatch ==
    /\ iq.answer.n <= 1
    /\ iq.pc = "answer" => iq.answer.kind # "raised"
    /\ (/\ iq.pc = "answer"
        /\ \A uid \in Owners(FirstWord(iq.q)) : ~Authorized(iq.user, uid)
        /\ iq.q \notin Live)
            => (iq.answer.kind = "none" /\ iq.answer.n = 0)

\* C12: a delete of a form whose record was already removed from the store
\* returns False without raising, leaves the store unchanged and does not
\* invoke the unload hook.
C12_DeleteOfRemovedForm ==
    /\ [](\A d \in DeleteIds :
            (dl[d].pc = "done" /\ ~dl[d].live) => dl[d].ret = "False")
    /\ [][\A d \in DeleteIds :
            (dl[d].pc = "await" /\ dl[d].uid \notin Live /\ dl'[d].pc = "done") =>
                /\ dl'[d].ret = "False"
                /\ forms' = forms
                /\ heap' = heap
                /\ hooks' = hooks]_vars

C12_Witness ==
    \E d \in DeleteIds :
        /\ dl[d].pc = "done"
        /\ ~dl[d].live
        /\ dl[d].ret = "False"
        /\ heap[dl[d].uid].on_unload
        /\ hooks[dl[d].uid] = 1

\* C13: delete requests the transport deletion first, and runs the hook and
\* the removal only after it.  When the transport deletion fails the hook is
\* not invoked, the record stays and delete returns False; when the hook
\* raises delete returns False; delete returns True only when the record has
\* been removed from the store, and the hook was invoked by then.
C13_DeleteOrder ==
    /\ [][\A d \in DeleteIds : \A uid \in DOMAIN heap :
            DeleteCall(d, uid) =>
                /\ net' = {"delete_messages"}
                /\ forms' = forms
                /\ hooks' = hooks
                /\ dl'[d].ret = "none"]_vars
    /\ [][\A d \in DeleteIds : \A h \in Outcomes :
            DeleteReply(d, "raise", h) =>
                /\ hooks' = hooks
                /\ forms' = forms
                /\ dl'[d].ret = "False"]_vars
    /\ [][\A d \in DeleteIds :
            (DeleteReply(d, "ok", "raise") /\ dl[d].uid \in Live
                    /\ heap[dl[d].uid].on_unload) =>
                /\ dl'[d].ret = "False"
                /\ hooks'[dl[d].uid] = hooks[dl[d].uid] + 1]_vars
    /\ [][\A d \in DeleteIds :
            (dl[d].pc = "await" /\ dl'[d].ret = "True") =>
                /\ dl[d].uid \in Live
                /\ dl[d].uid \notin Live'
                /\ heap[dl[d].uid].on_unload
                        => hooks'[dl[d].uid] = hooks[dl[d].uid] + 1]_vars

C13_Witness ==
    \E d \in DeleteIds :
        /\ dl[d].pc = "done"
        /\ dl[d].ret = "False"
        /\ dl[d].live
        /\ dl[d].uid \in Live
        /\ heap[dl[d].uid].on_unload
        /\ hooks[dl[d].uid] = 0
        /\ ul.n = 0

\* C14 as stated: a form created with ttl=5 expires 10 seconds after its
\* creation, a form created with ttl=999999 expires 86400 seconds after it.
C14_ClampedToLimits ==
    /\ (cr.uid # NoTok /\ cr.ttl = PyInt(5)) => heap[cr.uid].ttl = Now + 10
    /\ (cr.uid # NoTok /\ cr.ttl = PyInt(999999))
            => heap[cr.uid].ttl = Now + MarkupTTL

\* C14 amended: a form created with ttl=5 and a form created with ttl=999999
\* both expire self._markup_ttl (86400) seconds after their creation: a ttl
\* below 10 is replaced by the maximum, not by the minimum.
C14_FallBackToMaximum ==
    /\ (cr.uid # NoTok /\ cr.ttl = PyInt(5))
            => heap[cr.uid].ttl = Now + MarkupTTL
    /\ (cr.uid # NoTok /\ cr.ttl = PyInt(999999))
            => heap[cr.uid].ttl = Now + MarkupTTL

C14_Witness ==
    /\ cr.pc = "done"
    /\ cr.ret = "uid"
    /\ cr.ttl = PyInt(5)
    /\ heap[cr.uid].ttl = Now + MarkupTTL

\* C15: for an integer or False ttl the registered record expires t seconds
\* after its creation with 10 <= t <= self._markup_ttl: t is the ttl when
\* the ttl is within these limits, and self._markup_ttl otherwise.
C15_ExpiryWithinLimits ==
    (cr.uid # NoTok /\ IsInt(cr.ttl)) =>
        LET t == heap[cr.uid].ttl - Now
        IN  /\ 10 <= t
            /\ t <= MarkupTTL
            /\ t = IF 10 <= cr.ttl.n /\ cr.ttl.n <= MarkupTTL
                   THEN cr.ttl.n ELSE MarkupTTL

C15_Witness ==
    /\ cr.pc = "done"
    /\ cr.ret = "uid"
    /\ cr.ttl = PyInt(3600)
    /\ heap[cr.uid].ttl = Now + 3600

\* C16: an edit that the transport answers with MessageNotModified or
\* MessageIdInvalid ends there: it sends no further request, leaves the
\* store as it is, acknowledges the query once (with the notice only when the
\* message is gone) and returns without raising, also when it was called
\* without a query.
C16_TerminalAndBenign ==
    [][\A e \in EditIds : \A o \in {"MessageNotModified", "MessageIdInvalid"} :
          EditReply(e, o) =>
              /\ ed'[e].pc = "done"
              /\ ed'[e].ret # "raised"
              /\ ed'[e].sent = ed[e].sent
              /\ forms' = forms
              /\ ed[e].args.query # "None" =>
                    /\ net' = {"query.answer"}
                    /\ ed'[e].ack = IF o = "MessageIdInvalid"
                                    THEN "notice" ELSE "silent"]_vars

\* C17: unload invokes the hook if there is one and then removes the record,
\* and requests no transport operation; for an identifier that is not in the
\* store, and when the hook raises, it returns False and the store is
\* unchanged.
C17_UnloadTouchesNoMessage ==
    [][\A uid \in DOMAIN heap : \A h \in Outcomes :
          Unload(uid, h) =>
              /\ net' = {}
              /\ heap' = heap
              /\ ul'.ret \in {"True", "False"}
              /\ IF uid \notin Live
                 THEN /\ ul'.ret = "False"
                      /\ forms' = forms
                      /\ hooks' = hooks
                 ELSE IF heap[uid].on_unload /\ h = "raise"
                 THEN /\ ul'.ret = "False"
                      /\ forms' = forms
                      /\ hooks'[uid] = hooks[uid] + 1
                 ELSE /\ ul'.ret = "True"
                      /\ forms' = Remove(forms, uid)
                      /\ hooks'[uid] = hooks[uid]
                            + (IF heap[uid].on_unload THEN 1 ELSE 0)]_vars

C17_Witness ==
    /\ ul.n = 1
    /\ ul.ret = "False"
    /\ ul.uid \in Live
    /\ heap[ul.uid].on_unload
    /\ hooks[ul.uid] = 1
    /\ \A d \in DeleteIds : dl[d].pc = "idle"

\* one button before and after a step: a token it had is kept
Kept(o, n) ==
    /\ n.tags = o.tags
    /\ o.cb # NoTok => n.cb = o.cb
    /\ o.sq # NoTok => n.sq = o.sq

\* one button before and after a generation of the markup: a token it had
\* is kept, a token it lacked for a tag it has is new, and it gets no token
\* for a tag it has not
KeptOrFresh(o, n) ==
    /\ Kept(o, n)
    /\ ("callback" \in o.tags /\ o.cb = NoTok) => (n.cb # NoTok /\ n.cb \notin used)
    /\ ("input" \in o.tags /\ o.sq = NoTok) => (n.sq # NoTok /\ n.sq \notin used)
    /\ "callback" \notin o.tags => n.cb = o.cb
    /\ "input" \notin o.tags => n.sq = o.sq

\* C18: generating the markup of a form leaves the tokens of the buttons
\* that have one unchanged and gives a new token to the callback and input
\* buttons that have none; generating it again changes nothing; a button
\* without the callback (input) tag has no callback (input) token; and an
\* inline query leaves every token of every record as it was, the markup it
\* generates for the form it names included.
C18_AnnotationIdempotent ==
    /\ [](\A uid \in DOMAIN heap :
            LET rows == heap[uid].buttons
                once == Annotate(rows, used)
                twice == Annotate(once.rows, once.taken)
            IN  /\ twice.rows = once.rows
                /\ twice.taken = once.taken
                /\ Len(once.rows) = Len(rows)
                /\ \A i \in 1..Len(rows) :
                      /\ Len(once.rows[i]) = Len(rows[i])
                      /\ \A j \in 1..Len(rows[i]) :
                            /\ KeptOrFresh(rows[i][j], once.rows[i][j])
                            /\ "callback" \notin rows[i][j].tags
                                    => rows[i][j].cb = NoTok
                            /\ "input" \notin rows[i][j].tags
                                    => rows[i][j].sq = NoTok)
    /\ [][(iq.pc = "idle" /\ iq'.pc = "answer") =>
            \A uid \in DOMAIN heap :
                \A i \in 1..Len(heap[uid].buttons) :
                    /\ Len(heap'[uid].buttons) = Len(heap[uid].buttons)
                    /\ Len(heap'[uid].buttons[i]) = Len(heap[uid].buttons[i])
                    /\ \A j \in 1..Len(heap[uid].buttons[i]) :
                          IF iq'.answer.kind = "form" /\ iq'.answer.uid = uid
                          THEN KeptOrFresh(heap[uid].buttons[i][j],
                                           heap'[uid].buttons[i][j])
                          ELSE heap'[uid].buttons[i][j] = heap[uid].buttons[i][j]]_vars

C18_Witness ==
    /\ iq.pc = "answer"
    /\ iq.answer.kind = "form"
    /\ heap[iq.answer.uid].chat # NoId
    /\ ed[1].pc = "done"
    /\ ed[1].uid = iq.answer.uid
    /\ Len(ed[1].sent) = 2
    /\ ed[1].calls[1].reply_markup = GridList(<<InputRow>>)
    /\ heap[iq.answer.uid].buttons[1][1].sq # NoTok
    /\ heap[iq.answer.uid].buttons[1][1].sq \in used
    /\ iq.answer.markup = ed[1].sent[1].reply_markup
    /\ iq.answer.markup = ed[1].sent[2].reply_markup

\* C19: when two edits of one form have both ended, the one called first
\* having been rate-limited meanwhile or not, the grid, force_me and
\* always_allow of the record are those the edit called last has written.
C19_LastEditWins ==
    (/\ ed[1].pc = "done" /\ ed[1].ret = "None"
     /\ ed[2].pc = "done" /\ ed[2].ret = "None"
     /\ ed[1].uid = ed[2].uid
     /\ ed[2].uid \in Live)
        => LET rec == heap[ed[2].uid]
               a == ed[2].calls[1]
           IN  /\ a.reply_markup.t = "list"
                     => Shape(rec.buttons) = Shape(Rows(a.reply_markup))
               /\ a.force_me.t = "bool" => rec.force_me = (a.force_me.n = 1)
               /\ a.always_allow.t = "list" => rec.always_allow = a.always_allow.xs

\* C20: the text of a record is the text given to Form.form and no step
\* changes it, so the answer to an inline query that names a live form has
\* that text as its content, also after edits that sent another text.
C20_TextWrittenOnce ==
    /\ [](\A uid \in DOMAIN heap : \E in \in LifeInputs : heap[uid].text = in.text.s)
    /\ [][\A uid \in DOMAIN heap : heap'[uid].text = heap[uid].text]_vars
    /\ []((iq.pc = "answer" /\ iq.q \in Live) =>
            /\ iq.answer.kind \in {"form", "input"}
            /\ iq.answer.kind = "form" =>
                  /\ iq.answer.uid = iq.q
                  /\ iq.answer.n = 1
                  /\ iq.answer.content = heap[iq.q].text)

C20_Witness ==
    /\ iq.pc = "answer"
    /\ iq.answer.kind = "form"
    /\ iq.answer.content = Hi
    /\ \E e \in EditIds :
          /\ ed[e].pc = "done"
          /\ ed[e].ret = "None"
          /\ ed[e].uid = iq.q
          /\ ed[e].sent # <<>>
          /\ ed[e].sent[1].text = New
          /\ ed[e].sent[1].text # iq.answer.content

====
